---- MODULE Spec2Model ----
(***************************************************************************)
(* Model of the Certifree client glue: the auth service (authService:      *)
(* handleGoogleOAuth, handleOAuthCallback, handleEmailLogin,               *)
(* handleEmailSignup, handleSignOut, resendVerificationEmail) and the      *)
(* useRecaptcha hook.                                                      *)
(*                                                                         *)
(* Every async function is cut at its awaits: the code between two awaits  *)
(* runs to completion in one action (JavaScript's run-to-completion), and  *)
(* several invocations may be in flight at once, sharing localStorage and  *)
(* the external service.  An SDK call settles in one of three ways: it     *)
(* resolves with data, resolves with { error }, or rejects (throws).       *)
(***************************************************************************)
EXTENDS Integers, Sequences, FiniteSets, TLC

\* ---------------------------------------------------------------- bounds
\* Invocation contexts that may be in flight at the same time.
NumProcs == 2
\* Invocations of exported operations started in one behaviour.
MaxInvocations == 3
\* Hook instances (components calling useRecaptcha) on the page.
NumHooks == 2
\* Effect runs (mounts and site-key changes) in one behaviour.
MaxEffects == 3

Procs == 1..NumProcs
Hooks == 1..NumHooks

\* -------------------------------------------------------------- constants
NoFlag == "<absent>"          \* localStorage.getItem(...) === null
NoError == "<undefined>"      \* AuthResult.error not set
NoData == "<null>"            \* data: null / undefined
NoResult == [kind |-> "none"] \* the handler has not returned
NoReturn == [op |-> "none"]   \* the step returned from no invocation

Session == "session"
Profile == "profile"

MsgNoSession == "No session found. Please try again."
MsgExists == "An account with this email already exists. Please log in instead."
MsgProfileNotCreated == "Failed to create user profile. Please try again."
MsgNoAccount == "No account found with this email. Please sign up first."
MsgInvalidMode == "Invalid authentication mode"

\* useRecaptcha
Placeholder == "your_recaptcha_site_key_here"
SiteKeys == {"", Placeholder, "6Lc-key-A", "6Lc-key-B"}
MsgKeyNotConfigured == "reCAPTCHA site key not configured"
MsgScriptFailed == "Failed to load reCAPTCHA script"
MsgNotLoaded == "reCAPTCHA not loaded yet"
MsgNotAvailable == "reCAPTCHA not available"
MsgExecuteFailed == "Failed to execute reCAPTCHA"
NoExec == [hook |-> 0]

\* type AuthMode = 'login' | 'signup'
AuthMode == {"login", "signup"}

\* What the oauth_mode key of localStorage may hold when the page loads: the
\* key is ambient browser state, any script of the origin may have written it.
StoredValues == {NoFlag, "", "login", "signup", "admin"}

Ops == {"handleGoogleOAuth", "handleOAuthCallback", "handleEmailLogin",
        "handleEmailSignup", "handleSignOut", "resendVerificationEmail"}

VARIABLES
    oauth_mode,     \* localStorage['oauth_mode']
    authed,         \* the client holds a session (external auth state)
    profileExists,  \* a row of profiles matches the user's email (external db)
    op,             \* op[p]: the operation invocation p runs
    pc,             \* pc[p]: "idle", or the await p is suspended at
    mode,           \* mode[p]: the mode argument of handleGoogleOAuth
    storedMode,     \* storedMode[p]: what the callback read from localStorage
    authMode,       \* authMode[p]: the callback's local authMode
    calls,          \* calls[p]: the async calls p issued, in order
    responses,      \* responses[p]: how the SDK calls of p settled, in order
    returned,       \* what the step just taken handed to a caller: the returning
                    \* invocation's result and history (NoReturn: nothing)
    started,        \* invocations started so far
    lastInitiated,  \* mode of the latest handleGoogleOAuth that returned success
    rc_key,         \* useRecaptcha: siteKey prop of each hook instance
    rc_mounted,     \* the instance is mounted
    rc_loaded,      \* useState loaded
    rc_error,       \* useState error (its message)
    rc_ref,         \* scriptLoadedRef.current
    scripts,        \* document: number of recaptcha script elements
    scriptState,    \* "none" | "loading" | "loaded" | "failed"
    scriptOwner,    \* the instance whose closures are the script's handlers
    readyQueued,    \* grecaptcha.ready callback registered and not yet run
    readyRan,       \* the callback given to grecaptcha.ready has run
    lastExec,       \* what the step just taken was, if an executeRecaptcha call:
                    \* the caller's loaded at the call and how the call ended
    effects         \* effect runs so far

authVars == <<oauth_mode, authed, profileExists, op, pc, mode, storedMode, authMode,
              calls, responses, returned, started, lastInitiated>>
rcVars == <<rc_key, rc_mounted, rc_loaded, rc_error, rc_ref, scripts,
            scriptState, scriptOwner, readyQueued, readyRan, lastExec, effects>>
vars == <<authVars, rcVars>>

\* ------------------------------------------------------------ AuthResult
\* interface AuthResult { success; error?; requiresVerification?; data? }
Returned(s, e, v, d) ==
    [kind |-> "returned", success |-> s, error |-> e,
     requiresVerification |-> v, data |-> d]

\* the promise rejected: an exception left the function
Thrown(m) ==
    [kind |-> "thrown", success |-> FALSE, error |-> m,
     requiresVerification |-> FALSE, data |-> NoData]

\* return { success: false, error: message }
Fail(m) == Returned(FALSE, m, FALSE, NoData)

\* return { success: true, data }
Succeed(d) == Returned(TRUE, NoError, FALSE, d)

\* return { success: true, requiresVerification: true, data }
SucceedVerify(d) == Returned(TRUE, NoError, TRUE, d)

\* catch (err) { ...; return { success: false, error: err.message } }
\* (faulty variant: a handler without its catch)
CatchRethrows(m) == Thrown(m)
Catch(m) == Fail(m)

\* ------------------------------------------------------------ SDK calls
IsSdkCall(c) == c # "setTimeout"

\* the call an invocation awaits at each suspension point
CallOf(at) ==
    CASE at = "oauth_await" -> "auth.signInWithOAuth"
      [] at = "cb_session" -> "auth.getSession"
      [] at \in {"cb_profile", "cb_verify", "su_profile"} -> "profiles.select"
      [] at = "cb_delay" -> "setTimeout"
      [] at \in {"cb_signout", "so_await"} -> "auth.signOut"
      [] at = "login_await" -> "auth.signInWithPassword"
      [] at = "su_signup" -> "auth.signUp"
      [] at = "resend_await" -> "auth.resend"

Resolved(d) == [kind |-> "ok", msg |-> NoError, data |-> d]

\* error.message of the { error } a call resolves with (the service's answer,
\* which names what failed) and of the exception it rejects with
SdkMsg(c, k) == IF k = "error" THEN "ApiError: " \o c ELSE "TypeError: Failed to fetch"
ErrorOutcomes(c) == {[kind |-> k, msg |-> SdkMsg(c, k), data |-> NoData] :
                        k \in {"error", "throw"}}
SdkMsgs == {SdkMsg(c, k) : c \in {"auth.signInWithOAuth", "auth.getSession",
                "profiles.select", "auth.signOut", "auth.signInWithPassword",
                "auth.signUp", "auth.resend"}, k \in {"error", "throw"}}

\* the ways a call may settle, given the external state when it does
Outcomes(c) ==
    ErrorOutcomes(c) \cup
    CASE c = "auth.getSession" ->
            {Resolved(IF authed THEN Session ELSE NoData)}
      [] c = "profiles.select" ->
            {Resolved(IF profileExists THEN Profile ELSE NoData)}
      [] c = "auth.signUp" -> {Resolved("user+session"), Resolved("user")}
      [] c = "auth.signInWithOAuth" -> {Resolved("url")}
      [] c = "auth.signInWithPassword" -> {Resolved("user+session")}
      [] OTHER -> {Resolved(NoData)}

\* what a settled call did to the client's session
AuthedAfter(c, o) ==
    IF o.kind # "ok" THEN authed
    ELSE CASE c = "auth.signOut" -> FALSE
           [] c = "auth.signInWithPassword" -> TRUE
           [] c = "auth.signUp" -> authed \/ o.data = "user+session"
           [] OTHER -> authed

\* checkProfileExists: { exists, profile } or { exists: false, error }; it
\* catches everything, so it never rejects
CheckProfileExists(o) ==
    IF o.kind = "ok"
    THEN [exists |-> o.data # NoData, error |-> NoError]
    ELSE [exists |-> FALSE, error |-> o.msg]

\* localStorage.getItem('oauth_mode') as AuthMode || 'login'
\* (faulty variant: without the || 'login')
ReadModeNoDefault(stored) == stored
ReadMode(stored) == IF stored \in {NoFlag, ""} THEN "login" ELSE stored

\* --------------------------------------------- the code between two awaits
\* What a handler does when the call it awaits settles: the await it goes to
\* next (or "done" with the result it returns), and whether it removes the
\* oauth_mode key on the way.
Ret(r, rm) == [next |-> "done", result |-> r, removeFlag |-> rm]
Go(at, rm) == [next |-> at, result |-> NoResult, removeFlag |-> rm]

GoogleOAuthResume(o) ==
    CASE o.kind = "throw" -> Ret(Catch(o.msg), TRUE)
      [] o.kind = "error" -> Ret(Fail(o.msg), TRUE)
      [] OTHER -> Ret(Succeed(o.data), FALSE)

CallbackAfterSession(o) ==
    CASE o.kind = "throw" -> Ret(Catch(o.msg), TRUE)
      [] o.kind = "error" -> Ret(Fail(o.msg), FALSE)
      [] o.data = NoData -> Ret(Fail(MsgNoSession), FALSE)
      [] OTHER -> Go("cb_profile", TRUE)

CallbackAfterProfile(am, profileCheck) ==
    CASE am = "signup" ->
            IF profileCheck.exists THEN Ret(Fail(MsgExists), FALSE)
            ELSE Go("cb_delay", FALSE)
      [] am = "login" ->
            IF ~profileCheck.exists THEN Go("cb_signout", FALSE)
            ELSE Ret(Succeed(Session), FALSE)
      [] OTHER -> Ret(Fail(MsgInvalidMode), FALSE)

\* (faulty variants: polling until the profile shows up; trusting the trigger)
CallbackAfterVerifyPolls(verifyCheck) ==
    IF ~verifyCheck.exists THEN Go("cb_delay", FALSE)
    ELSE Ret(Succeed(Session), FALSE)
CallbackAfterVerifyTrusts(verifyCheck) == Ret(Succeed(Session), FALSE)
CallbackAfterVerify(verifyCheck) ==
    IF ~verifyCheck.exists THEN Ret(Fail(MsgProfileNotCreated), FALSE)
    ELSE Ret(Succeed(Session), FALSE)

CallbackAfterSignOut(o) ==
    IF o.kind = "throw" THEN Ret(Catch(o.msg), TRUE)
    ELSE Ret(Fail(MsgNoAccount), FALSE)

EmailLoginResume(o) ==
    CASE o.kind = "throw" -> Ret(Catch(o.msg), FALSE)
      [] o.kind = "error" -> Ret(Fail(o.msg), FALSE)
      [] OTHER -> Ret(Succeed(o.data), FALSE)

\* (faulty variant: signing up whatever the lookup found)
EmailSignupAfterProfileNoCheck(profileCheck) == Go("su_signup", FALSE)
EmailSignupAfterProfile(profileCheck) ==
    IF profileCheck.exists THEN Ret(Fail(MsgExists), FALSE)
    ELSE Go("su_signup", FALSE)

EmailSignupResume(o) ==
    CASE o.kind = "throw" -> Ret(Catch(o.msg), FALSE)
      [] o.kind = "error" -> Ret(Fail(o.msg), FALSE)
      [] o.data = "user+session" -> Ret(Succeed(o.data), FALSE)
      [] OTHER -> Ret(SucceedVerify(o.data), FALSE)

SignOutResume(o) ==
    CASE o.kind = "throw" -> Ret(Catch(o.msg), FALSE)
      [] o.kind = "error" -> Ret(Fail(o.msg), FALSE)
      [] OTHER -> Ret(Succeed(NoData), TRUE)

ResendResume(o) ==
    CASE o.kind = "throw" -> Ret(Catch(o.msg), FALSE)
      [] o.kind = "error" -> Ret(Fail(o.msg), FALSE)
      [] OTHER -> Ret(Succeed(NoData), FALSE)

\* --------------------------------------------------------------- actions
\* The page loads: nobody is signed in and no profile row exists yet; the
\* oauth_mode key holds whatever an earlier visit left in localStorage.
Init ==
    /\ oauth_mode \in StoredValues
    /\ authed = FALSE
    /\ profileExists = FALSE
    /\ op = [p \in Procs |-> "none"]
    /\ pc = [p \in Procs |-> "idle"]
    /\ mode = [p \in Procs |-> "login"]
    /\ storedMode = [p \in Procs |-> NoFlag]
    /\ authMode = [p \in Procs |-> "login"]
    /\ calls = [p \in Procs |-> <<>>]
    /\ responses = [p \in Procs |-> <<>>]
    /\ returned = NoReturn
    /\ started = 0
    /\ lastInitiated = "none"
    /\ rc_key = [h \in Hooks |-> ""]
    /\ rc_mounted = [h \in Hooks |-> FALSE]
    /\ rc_loaded = [h \in Hooks |-> FALSE]
    /\ rc_error = [h \in Hooks |-> NoError]
    /\ rc_ref = [h \in Hooks |-> FALSE]
    /\ scripts = 0
    /\ scriptState = "none"
    /\ scriptOwner = 0
    /\ readyQueued = FALSE
    /\ readyRan = FALSE
    /\ lastExec = NoExec
    /\ effects = 0

\* an exported operation is called: it runs up to its first await
Begin(p, name, at) ==
    /\ pc[p] = "idle"
    /\ started < MaxInvocations
    /\ started' = started + 1
    /\ op' = [op EXCEPT ![p] = name]
    /\ pc' = [pc EXCEPT ![p] = at]
    /\ calls' = [calls EXCEPT ![p] = <<CallOf(at)>>]
    /\ returned' = NoReturn
    /\ UNCHANGED <<authed, profileExists, storedMode, authMode, responses,
                   lastInitiated, rcVars>>

\* the call awaited at `at` settles with outcome o and the handler runs on,
\* as `step` says, to its next await or to its return; sm and am are the
\* handler's locals (the oauth_mode value it read, and its authMode)
Settle(p, at, o, step, sm, am) ==
    LET resp == IF IsSdkCall(CallOf(at)) THEN Append(responses[p], o)
                ELSE responses[p]
    IN  /\ pc[p] = at
        /\ oauth_mode' = IF step.removeFlag THEN NoFlag ELSE oauth_mode
        /\ authed' = AuthedAfter(CallOf(at), o)
        /\ IF step.next = "done"
           THEN /\ returned' = [op |-> op[p], result |-> step.result,
                                calls |-> calls[p], responses |-> resp,
                                mode |-> mode[p], storedMode |-> sm,
                                authMode |-> am]
                /\ pc' = [pc EXCEPT ![p] = "idle"]
                /\ op' = [op EXCEPT ![p] = "none"]
                /\ mode' = [mode EXCEPT ![p] = "login"]
                /\ calls' = [calls EXCEPT ![p] = <<>>]
                /\ responses' = [responses EXCEPT ![p] = <<>>]
                /\ storedMode' = [storedMode EXCEPT ![p] = NoFlag]
                /\ authMode' = [authMode EXCEPT ![p] = "login"]
           ELSE /\ pc' = [pc EXCEPT ![p] = step.next]
                /\ calls' = [calls EXCEPT ![p] = Append(@, CallOf(step.next))]
                /\ responses' = [responses EXCEPT ![p] = resp]
                /\ storedMode' = [storedMode EXCEPT ![p] = sm]
                /\ authMode' = [authMode EXCEPT ![p] = am]
                /\ returned' = NoReturn
                /\ UNCHANGED <<op, mode>>
        /\ UNCHANGED <<profileExists, started, rcVars>>

\* a handler other than the callback's read of oauth_mode: its locals stay
Resume(p, at, o, step) == Settle(p, at, o, step, storedMode[p], authMode[p])

\* handleGoogleOAuth(mode): localStorage.setItem, then await signInWithOAuth
StartGoogleOAuth(p, m) ==
    /\ Begin(p, "handleGoogleOAuth", "oauth_await")
    /\ mode' = [mode EXCEPT ![p] = m]
    /\ oauth_mode' = m

ResumeGoogleOAuth(p, o) ==
    /\ Resume(p, "oauth_await", o, GoogleOAuthResume(o))
    /\ lastInitiated' = IF GoogleOAuthResume(o).result.success
                        THEN mode[p] ELSE lastInitiated

\* handleOAuthCallback: await getSession
StartOAuthCallback(p) ==
    /\ Begin(p, "handleOAuthCallback", "cb_session")
    /\ UNCHANGED <<mode, oauth_mode>>

\* ... the session arrives: read and remove oauth_mode, await the lookup
CallbackSession(p, o) ==
    /\ IF CallbackAfterSession(o).next = "cb_profile"
       THEN Settle(p, "cb_session", o, CallbackAfterSession(o),
                   oauth_mode, ReadMode(oauth_mode))
       ELSE Resume(p, "cb_session", o, CallbackAfterSession(o))
    /\ UNCHANGED lastInitiated

\* ... profileCheck arrives: branch on authMode
CallbackProfile(p, o) ==
    /\ Resume(p, "cb_profile", o,
              CallbackAfterProfile(authMode[p], CheckProfileExists(o)))
    /\ UNCHANGED lastInitiated

\* ... await new Promise(resolve => setTimeout(resolve, 1000)) is over
CallbackDelay(p) ==
    /\ Resume(p, "cb_delay", Resolved(NoData), Go("cb_verify", FALSE))
    /\ UNCHANGED lastInitiated

\* ... verifyCheck arrives
CallbackVerify(p, o) ==
    /\ Resume(p, "cb_verify", o, CallbackAfterVerify(CheckProfileExists(o)))
    /\ UNCHANGED lastInitiated

\* ... the login branch's signOut settles
CallbackSignOut(p, o) ==
    /\ Resume(p, "cb_signout", o, CallbackAfterSignOut(o))
    /\ UNCHANGED lastInitiated

\* handleEmailLogin: await signInWithPassword
StartEmailLogin(p) ==
    /\ Begin(p, "handleEmailLogin", "login_await")
    /\ UNCHANGED <<mode, oauth_mode>>

ResumeEmailLogin(p, o) ==
    /\ Resume(p, "login_await", o, EmailLoginResume(o))
    /\ UNCHANGED lastInitiated

\* handleEmailSignup: await checkProfileExists(email)
StartEmailSignup(p) ==
    /\ Begin(p, "handleEmailSignup", "su_profile")
    /\ UNCHANGED <<mode, oauth_mode>>

\* ... profileCheck arrives
EmailSignupProfile(p, o) ==
    /\ Resume(p, "su_profile", o, EmailSignupAfterProfile(CheckProfileExists(o)))
    /\ UNCHANGED lastInitiated

\* ... signUp settles
EmailSignupSettle(p, o) ==
    /\ Resume(p, "su_signup", o, EmailSignupResume(o))
    /\ UNCHANGED lastInitiated

\* handleSignOut: await signOut
StartSignOut(p) ==
    /\ Begin(p, "handleSignOut", "so_await")
    /\ UNCHANGED <<mode, oauth_mode>>

ResumeSignOut(p, o) ==
    /\ Resume(p, "so_await", o, SignOutResume(o))
    /\ UNCHANGED lastInitiated

\* resendVerificationEmail: await resend
StartResend(p) ==
    /\ Begin(p, "resendVerificationEmail", "resend_await")
    /\ UNCHANGED <<mode, oauth_mode>>

ResumeResend(p, o) ==
    /\ Resume(p, "resend_await", o, ResendResume(o))
    /\ UNCHANGED lastInitiated

\* the external service: the provider redirects back with a session after an
\* initiation that succeeded
ProviderRedirect ==
    /\ lastInitiated # "none"
    /\ ~authed
    /\ authed' = TRUE
    /\ returned' = NoReturn
    /\ UNCHANGED <<oauth_mode, profileExists, op, pc, mode, storedMode, authMode,
                   calls, responses, started, lastInitiated, rcVars>>

\* the external database: its trigger inserts the profile of a signed-in user
DbTrigger ==
    /\ authed
    /\ ~profileExists
    /\ profileExists' = TRUE
    /\ returned' = NoReturn
    /\ UNCHANGED <<oauth_mode, authed, op, pc, mode, storedMode, authMode,
                   calls, responses, started, lastInitiated, rcVars>>

\* ------------------------------------------------------------ useRecaptcha
\* !siteKey || siteKey === 'your_recaptcha_site_key_here'
KeyNotConfigured(k) == k = "" \/ k = Placeholder

\* the effect's branch, from the site key, scriptLoadedRef.current and
\* document.querySelector('script[src*="recaptcha/api.js"]')
EffectBranch(k, ref, existingScript) ==
    CASE KeyNotConfigured(k) -> "unconfigured"
      [] ref -> "skip"
      [] existingScript -> "adopt"
      [] OTHER -> "inject"

\* useEffect(() => {...}, [siteKey]) runs for instance h, whose state before
\* the run is (loaded, err, ref)
RunEffect(h, k, loaded, err, ref) ==
    LET b == EffectBranch(k, ref, scripts > 0)
    IN  /\ effects < MaxEffects
        /\ effects' = effects + 1
        /\ rc_key' = [rc_key EXCEPT ![h] = k]
        /\ rc_mounted' = [rc_mounted EXCEPT ![h] = TRUE]
        /\ rc_error' = [rc_error EXCEPT ![h] =
                          IF b = "unconfigured" THEN MsgKeyNotConfigured ELSE err]
        /\ rc_loaded' = [rc_loaded EXCEPT ![h] = IF b = "adopt" THEN TRUE ELSE loaded]
        /\ rc_ref' = [rc_ref EXCEPT ![h] = IF b = "adopt" THEN TRUE ELSE ref]
        /\ IF b = "inject"
           THEN scripts' = scripts + 1 /\ scriptState' = "loading" /\ scriptOwner' = h
           ELSE UNCHANGED <<scripts, scriptState, scriptOwner>>
        /\ lastExec' = NoExec
        /\ UNCHANGED <<readyQueued, readyRan, authVars>>

\* a component using the hook mounts: fresh state, then the effect
Mount(h, k) ==
    /\ ~rc_mounted[h]
    /\ RunEffect(h, k, FALSE, NoError, FALSE)

\* the siteKey prop of a mounted instance changes: the effect runs again
ChangeKey(h, k) ==
    /\ rc_mounted[h]
    /\ k # rc_key[h]
    /\ RunEffect(h, k, rc_loaded[h], rc_error[h], rc_ref[h])

\* the component unmounts: its state is gone and the closures the script's
\* handlers hold set state of a dead instance, which does nothing
Unmount(h) ==
    /\ rc_mounted[h]
    /\ rc_mounted' = [rc_mounted EXCEPT ![h] = FALSE]
    /\ rc_key' = [rc_key EXCEPT ![h] = ""]
    /\ rc_loaded' = [rc_loaded EXCEPT ![h] = FALSE]
    /\ rc_error' = [rc_error EXCEPT ![h] = NoError]
    /\ rc_ref' = [rc_ref EXCEPT ![h] = FALSE]
    /\ scriptOwner' = IF scriptOwner = h THEN 0 ELSE scriptOwner
    /\ lastExec' = NoExec
    /\ UNCHANGED <<scripts, scriptState, readyQueued, readyRan, effects, authVars>>

\* script.onload: window.grecaptcha.ready(callback)
ScriptLoad ==
    /\ scriptState = "loading"
    /\ scriptState' = "loaded"
    /\ readyQueued' = TRUE
    /\ lastExec' = NoExec
    /\ UNCHANGED <<rc_key, rc_mounted, rc_loaded, rc_error, rc_ref, scripts,
                   scriptOwner, readyRan, effects, authVars>>

\* grecaptcha runs the callback: setLoaded(true); scriptLoadedRef.current = true
ReadyCallback ==
    /\ readyQueued
    /\ readyQueued' = FALSE
    /\ readyRan' = TRUE
    /\ rc_loaded' = [h \in Hooks |-> IF h = scriptOwner THEN TRUE ELSE rc_loaded[h]]
    /\ rc_ref' = [h \in Hooks |-> IF h = scriptOwner THEN TRUE ELSE rc_ref[h]]
    /\ lastExec' = NoExec
    /\ UNCHANGED <<rc_key, rc_mounted, rc_error, scripts, scriptState,
                   scriptOwner, effects, authVars>>

\* script.onerror: setError(new Error('Failed to load reCAPTCHA script'))
ScriptError ==
    /\ scriptState = "loading"
    /\ scriptState' = "failed"
    /\ rc_error' = [h \in Hooks |-> IF h = scriptOwner THEN MsgScriptFailed
                                     ELSE rc_error[h]]
    /\ lastExec' = NoExec
    /\ UNCHANGED <<rc_key, rc_mounted, rc_loaded, rc_ref, scripts, scriptOwner,
                   readyQueued, readyRan, effects, authVars>>

\* executeRecaptcha(action): how the call ends, from loaded, whether
\* window.grecaptcha is defined, and whether grecaptcha.execute resolves
ExecuteOutcome(loaded, defined, resolves) ==
    CASE ~loaded -> [called |-> FALSE, error |-> MsgNotLoaded]
      [] ~defined -> [called |-> FALSE, error |-> MsgNotAvailable]
      [] resolves -> [called |-> TRUE, error |-> NoError]
      [] OTHER -> [called |-> TRUE, error |-> MsgExecuteFailed]

ExecuteRecaptcha(h, resolves) ==
    LET out == ExecuteOutcome(rc_loaded[h], scriptState = "loaded", resolves)
    IN  /\ rc_mounted[h]
        /\ lastExec' = [hook |-> h, loaded |-> rc_loaded[h],
                        called |-> out.called, error |-> out.error]
        /\ rc_error' = [rc_error EXCEPT ![h] =
                          IF out.called /\ out.error # NoError THEN out.error ELSE @]
        /\ UNCHANGED <<rc_key, rc_mounted, rc_loaded, rc_ref, scripts, scriptState,
                       scriptOwner, readyQueued, readyRan, effects, authVars>>

NextRecaptcha ==
    \/ \E h \in Hooks, k \in SiteKeys : Mount(h, k)
    \/ \E h \in Hooks, k \in SiteKeys : ChangeKey(h, k)
    \/ \E h \in Hooks : Unmount(h)
    \/ ScriptLoad
    \/ ReadyCallback
    \/ ScriptError
    \/ \E h \in Hooks, resolves \in BOOLEAN : ExecuteRecaptcha(h, resolves)

SpecRecaptcha == Init /\ [][NextRecaptcha]_vars

Next ==
    \/ \E p \in Procs, m \in AuthMode : StartGoogleOAuth(p, m)
    \/ \E p \in Procs : \E o \in Outcomes("auth.signInWithOAuth") : ResumeGoogleOAuth(p, o)
    \/ \E p \in Procs : StartOAuthCallback(p)
    \/ \E p \in Procs : \E o \in Outcomes("auth.getSession") : CallbackSession(p, o)
    \/ \E p \in Procs : \E o \in Outcomes("profiles.select") : CallbackProfile(p, o)
    \/ \E p \in Procs : CallbackDelay(p)
    \/ \E p \in Procs : \E o \in Outcomes("profiles.select") : CallbackVerify(p, o)
    \/ \E p \in Procs : \E o \in Outcomes("auth.signOut") : CallbackSignOut(p, o)
    \/ \E p \in Procs : StartEmailLogin(p)
    \/ \E p \in Procs : \E o \in Outcomes("auth.signInWithPassword") : ResumeEmailLogin(p, o)
    \/ \E p \in Procs : StartEmailSignup(p)
    \/ \E p \in Procs : \E o \in Outcomes("profiles.select") : EmailSignupProfile(p, o)
    \/ \E p \in Procs : \E o \in Outcomes("auth.signUp") : EmailSignupSettle(p, o)
    \/ \E p \in Procs : StartSignOut(p)
    \/ \E p \in Procs : \E o \in Outcomes("auth.signOut") : ResumeSignOut(p, o)
    \/ \E p \in Procs : StartResend(p)
    \/ \E p \in Procs : \E o \in Outcomes("auth.resend") : ResumeResend(p, o)
    \/ ProviderRedirect
    \/ DbTrigger

Spec == Init /\ [][Next]_vars

\* ================================================================ claims
Last(sq) == sq[Len(sq)]
Count(sq, c) == Cardinality({i \in DOMAIN sq : sq[i] = c})
SdkCallsOf(sq) == SelectSeq(sq, IsSdkCall)
IsPrefix(a, b) == Len(a) <= Len(b) /\ SubSeq(b, 1, Len(a)) = a

\* a lookup's answer shows a profile / a call's answer is an error of the SDK
Found(o) == o.kind = "ok" /\ o.data # NoData
Reported(o) == o.kind \in {"error", "throw"}

FixedMsgs == {MsgNoSession, MsgExists, MsgProfileNotCreated, MsgNoAccount,
              MsgInvalidMode}

\* C1: every operation that returns an AuthResult settles by returning a
\* result value, never by throwing, whether its SDK call resolved, resolved
\* with an error or threw; the result has success=false exactly when it
\* carries an error string, and a success carries none.
Thm_C1_ResultShape ==
    returned # NoReturn =>
        /\ returned.op \in Ops
        /\ returned.result.kind = "returned"
        /\ returned.result.success \in BOOLEAN
        /\ returned.result.error \in SdkMsgs \cup FixedMsgs \cup {NoError}
        /\ (returned.result.success = FALSE) <=> (returned.result.error # NoError)

\* C1's case: the callback's SDK call threw and the callback still returned
\* a failure result.
Wit_C1_ThrowReturnsResult ==
    /\ returned # NoReturn
    /\ returned.op = "handleOAuthCallback"
    /\ Last(returned.responses).kind = "throw"
    /\ returned.result = Fail(Last(returned.responses).msg)

\* C2 (as claimed): whenever an SDK call made during an operation reports an
\* error, the operation returns success=false with exactly that message.
Cex_C2_ErrorPassThrough ==
    returned # NoReturn =>
        \A i \in DOMAIN returned.responses :
            Reported(returned.responses[i]) =>
                returned.result = Fail(returned.responses[i].msg)

\* the extra profile lookup C3 excepts: the second lookup of a callback in
\* mode signup
ExtraLookups(r) ==
    IF r.op = "handleOAuthCallback" /\ r.authMode = "signup"
           /\ Count(r.calls, "profiles.select") = 2
    THEN 1 ELSE 0

\* C3 (as claimed): an invocation issues a single external call, the one
\* extra profile lookup of the callback's sign-up branch excepted.
Cex_C3_SingleCall ==
    returned # NoReturn =>
        Len(SdkCallsOf(returned.calls)) - ExtraLookups(returned) <= 1

\* the call sequences an invocation of each operation may issue
AllowedCalls(o, am) ==
    CASE o = "handleGoogleOAuth" -> {<<"auth.signInWithOAuth">>}
      [] o = "handleEmailLogin" -> {<<"auth.signInWithPassword">>}
      [] o = "handleSignOut" -> {<<"auth.signOut">>}
      [] o = "resendVerificationEmail" -> {<<"auth.resend">>}
      [] o = "handleEmailSignup" ->
            {<<"profiles.select">>, <<"profiles.select", "auth.signUp">>}
      [] o = "handleOAuthCallback" ->
            {<<"auth.getSession">>, <<"auth.getSession", "profiles.select">>} \cup
            (IF am = "signup"
             THEN {<<"auth.getSession", "profiles.select", "profiles.select">>}
             ELSE {}) \cup
            (IF am = "login"
             THEN {<<"auth.getSession", "profiles.select", "auth.signOut">>}
             ELSE {})

\* C3 (amended): no invocation issues the same external call twice, the one
\* extra profile lookup of the callback's sign-up branch excepted, but an
\* invocation is not one call: handleEmailSignup issues a profile lookup and
\* then at most one signUp; handleOAuthCallback issues getSession, then at
\* most one profile lookup, then at most one of a signOut (mode login) or the
\* extra lookup (mode signup); the other four issue exactly one call.
Thm_C3_CallSequences ==
    /\ \A p \in Procs : pc[p] # "idle" =>
          \E a \in AllowedCalls(op[p], authMode[p]) :
              IsPrefix(SdkCallsOf(calls[p]), a)
    /\ returned # NoReturn =>
          SdkCallsOf(returned.calls) \in AllowedCalls(returned.op, returned.authMode)

\* C3's case: a callback returned after getSession, a lookup and the extra
\* lookup.
Wit_C3_ThreeCalls ==
    /\ returned # NoReturn
    /\ returned.op = "handleOAuthCallback"
    /\ SdkCallsOf(returned.calls) =
          <<"auth.getSession", "profiles.select", "profiles.select">>

\* C4: a callback in mode signup whose first lookup finds no profile waits
\* the delay once and looks up once more, and that lookup alone decides the
\* result; no callback looks up more than twice or repeats another call, and
\* no other operation issues any call twice.
Thm_C4_PollOnce ==
    /\ returned # NoReturn /\ returned.op = "handleOAuthCallback"
          /\ returned.authMode = "signup" /\ Len(returned.responses) >= 2
          /\ ~Found(returned.responses[2])
       => /\ returned.calls = <<"auth.getSession", "profiles.select",
                                "setTimeout", "profiles.select">>
          /\ Len(returned.responses) = 3
          /\ returned.result = IF Found(returned.responses[3])
                               THEN Succeed(Session)
                               ELSE Fail(MsgProfileNotCreated)
    /\ \A p \in Procs :
          /\ Count(calls[p], "profiles.select") <= 2
          /\ Count(calls[p], "setTimeout") <= 1
          /\ \A c \in {"auth.signInWithOAuth", "auth.getSession", "auth.signOut",
                       "auth.signInWithPassword", "auth.signUp", "auth.resend"} :
                Count(calls[p], c) <= 1
          /\ op[p] # "handleOAuthCallback" => Count(calls[p], "profiles.select") <= 1

\* C4's case: no profile at the first lookup, one at the second, success.
Wit_C4_CreatedByTrigger ==
    /\ returned # NoReturn
    /\ returned.op = "handleOAuthCallback"
    /\ returned.authMode = "signup"
    /\ Len(returned.responses) = 3
    /\ ~Found(returned.responses[2])
    /\ Found(returned.responses[3])
    /\ returned.result = Succeed(Session)

\* the callback's result as C5 tabulates it, from the session's outcome, the
\* stored oauth_mode and the two lookups
ExpectedCallback(r) ==
    LET s == r.responses[1]
        m == IF r.storedMode \in {NoFlag, ""} THEN "login" ELSE r.storedMode
    IN  CASE Reported(s) -> Fail(s.msg)
          [] s.data = NoData -> Fail(MsgNoSession)
          [] m = "signup" /\ Found(r.responses[2]) -> Fail(MsgExists)
          [] m = "signup" /\ ~Found(r.responses[3]) -> Fail(MsgProfileNotCreated)
          [] m = "signup" -> Succeed(Session)
          [] m = "login" /\ ~Found(r.responses[2]) -> Fail(MsgNoAccount)
          [] m = "login" -> Succeed(Session)
          [] OTHER -> Fail(MsgInvalidMode)

\* success only with a session and a last lookup that found a profile
SuccessOnlyWithProfile(r) ==
    r.result.success =>
        /\ Found(r.responses[1])
        /\ Len(r.responses) >= 2
        /\ Found(Last(r.responses))

\* C5 (as claimed): the callback's result is the tabulated function of the
\* session outcome, the stored mode and the two profile lookups.
Cex_C5_ResultTable ==
    returned # NoReturn /\ returned.op = "handleOAuthCallback" =>
        /\ returned.result = ExpectedCallback(returned)
        /\ SuccessOnlyWithProfile(returned)

\* the login branch's signOut threw
SignOutThrew(r) ==
    /\ Last(r.calls) = "auth.signOut"
    /\ Last(r.responses).kind = "throw"

\* C5 (amended): the result is the tabulated function, except that in mode
\* login with no profile the sign-out the callback then awaits may throw, and
\* the result is then a failure carrying the thrown message.
Thm_C5_ResultTable ==
    returned # NoReturn /\ returned.op = "handleOAuthCallback" =>
        /\ returned.result = IF SignOutThrew(returned)
                             THEN Fail(Last(returned.responses).msg)
                             ELSE ExpectedCallback(returned)
        /\ SuccessOnlyWithProfile(returned)

\* C5's case: mode login by default (no flag stored), no profile, and the
\* sign-out threw.
Wit_C5_SignOutThrew ==
    /\ returned # NoReturn
    /\ returned.op = "handleOAuthCallback"
    /\ returned.storedMode \in {NoFlag, ""}
    /\ SignOutThrew(returned)
    /\ returned.result = Fail(SdkMsg("auth.signOut", "throw"))

\* C6 (as claimed): the mode a callback reconciles under is the mode passed
\* to the latest handleGoogleOAuth whose initiation succeeded, whatever other
\* invocations did meanwhile.
Cex_C6_ModeOfLatestInitiation ==
    [][\A p \in Procs :
          pc[p] = "cb_session" /\ pc'[p] = "cb_profile" /\ lastInitiated # "none"
              => authMode'[p] = lastInitiated]_vars

\* C7 (as claimed): a callback that found a session and returns failure has
\* signed the session out before it returns.
Cex_C7_RejectedIsSignedOut ==
    returned # NoReturn /\ returned.op = "handleOAuthCallback"
        /\ Found(returned.responses[1]) /\ ~returned.result.success
    => /\ Last(returned.calls) = "auth.signOut"
       /\ Last(returned.responses).kind = "ok"

\* C8 (as claimed): oauth_mode is absent from storage when a callback
\* returns, on every path, when handleGoogleOAuth returns a failure, and when
\* handleSignOut returns.
Cex_C8_FlagConsumed ==
    returned # NoReturn
        /\ \/ returned.op \in {"handleOAuthCallback", "handleSignOut"}
           \/ returned.op = "handleGoogleOAuth" /\ ~returned.result.success
    => oauth_mode = NoFlag

\* C9: handleEmailSignup issues signUp only after its profile lookup settled
\* and found no profile; when the lookup finds one it returns the failure
\* 'An account with this email already exists...' without signing up; and
\* when signUp succeeds the result is a success whose requiresVerification is
\* true exactly when the answer carries no session.
Thm_C9_LookupBeforeSignup ==
    /\ \A p \in Procs : Count(calls[p], "auth.signUp") > 0 =>
          /\ calls[p] = <<"profiles.select", "auth.signUp">>
          /\ Len(responses[p]) = 1
          /\ ~Found(responses[p][1])
    /\ returned # NoReturn /\ returned.op = "handleEmailSignup" =>
          /\ Found(returned.responses[1]) =>
                /\ returned.calls = <<"profiles.select">>
                /\ returned.result = Fail(MsgExists)
          /\ ~Found(returned.responses[1]) =>
                /\ returned.calls = <<"profiles.select", "auth.signUp">>
                /\ Len(returned.responses) = 2
          /\ Len(returned.responses) = 2 /\ returned.responses[2].kind = "ok" =>
                /\ returned.result.success
                /\ returned.result.requiresVerification
                      <=> (returned.responses[2].data # "user+session")

\* C9's case: no profile, signUp resolved without a session.
Wit_C9_RequiresVerification ==
    /\ returned # NoReturn
    /\ returned.op = "handleEmailSignup"
    /\ Len(returned.responses) = 2
    /\ returned.responses[2] = Resolved("user")
    /\ returned.result = SucceedVerify("user")

\* C10 (as claimed): loaded is true only after the script's load event fired
\* and the grecaptcha.ready callback ran; executeRecaptcha rejects with
\* 'reCAPTCHA not loaded yet' when loaded is false and calls
\* grecaptcha.execute only when it is true; at most one script element is
\* ever injected; an empty or placeholder key injects nothing and sets error.
Cex_C10_Recaptcha ==
    [][/\ \A h \in Hooks : rc_loaded'[h] => scriptState' = "loaded" /\ readyRan'
       /\ lastExec' # NoExec =>
             /\ ~lastExec'.loaded =>
                   ~lastExec'.called /\ lastExec'.error = MsgNotLoaded
             /\ lastExec'.called => lastExec'.loaded
       /\ scripts' <= 1
       /\ \A h \in Hooks :
             effects' # effects /\ rc_mounted'[h]
                 /\ (~rc_mounted[h] \/ rc_key'[h] # rc_key[h])
                 /\ KeyNotConfigured(rc_key'[h])
             => /\ scripts' = scripts
                /\ rc_error'[h] = MsgKeyNotConfigured]_vars

====
